---- MODULE Spec2Model ----
(***************************************************************************)
(* Board orchestration of the LED scoreboard (src/src/boards/boards.py):   *)
(* discovery of board modules into the registry, the instance cache, the   *)
(* early initializer and the four rotation loops with their interrupts.    *)
(***************************************************************************)
EXTENDS Integers, Sequences, FiniteSets, TLC

VARIABLES
    fs,                 \* the module directories found on disk: a sequence of module directories
    scan,               \* position of discovery in fs (number of directories already visited)
    heap,               \* dict objects by reference: heap[RegistryRef] is self._boards
    attrs,              \* handlers that setattr() put on the Boards object: id -> class
    result,             \* what the last registry API call returned
    _board_instances,   \* the instance cache: id -> instance
    nextInst,           \* the next object identity a constructor hands out
    broken,             \* ids whose constructor raises at present
    calls,              \* the last cache operations, newest last
    raised,             \* the exception that escaped the last top-level call, or NoExc
    mode,               \* the rotation running: "off_day", "scheduled", "intermission", "post_game"
    config,             \* data.config: the four board lists and pushbutton_state_triggered1
    pb_trigger,         \* data.pb_trigger
    mqtt_trigger,       \* data.mqtt_trigger
    mqtt_showboard,     \* data.mqtt_showboard
    wx_alert_interrupt, \* data.wx_alert_interrupt
    screensaver,        \* data.screensaver
    curr_board,         \* data.curr_board
    prev_board,         \* data.prev_board
    bord_index,         \* the loop's working index
    board,              \* the loop's local: the handler to call, or None
    pc,                 \* where the loop stands in its pass
    passes,             \* passes begun
    renders,            \* ids of the boards rendered, oldest first
    errors,             \* ids logged as "Board not found", oldest first
    flags0,             \* the interrupt flags that were set when the rotation began
    repos,              \* plugins.py: what cloning each url yields
    plugin_dirs,        \* plugins.py: the directories under PLUGINS_DIR, by name
    plugins_json,       \* plugins.py: the "plugins" list of plugins.json
    plugins_lock,       \* plugins.py: the "locked" list of plugins.lock.json
    proc,               \* plugins.py: the last command run and how its process ended
    requests,           \* the requests a background thread made through data.mqtt_*, oldest first
    clears,             \* the times the loop executed data.mqtt_trigger = False
    sleepEvent,         \* the threading.Event every board waits on: TRUE when set
    waits               \* the sleepEvent.wait() calls of the renders, oldest first

discVars == <<fs, scan, heap, attrs, result>>
cacheVars == <<_board_instances, nextInst, broken, calls>>
flagVars == <<pb_trigger, mqtt_trigger, mqtt_showboard, wx_alert_interrupt, screensaver>>
loopVars == <<mode, config, curr_board, prev_board, bord_index, board, pc, passes, renders,
              errors, flags0>>
toolVars == <<repos, plugin_dirs, plugins_json, plugins_lock, proc>>
threadVars == <<requests, clears, sleepEvent, waits>>
vars == <<discVars, cacheVars, raised, flagVars, loopVars, toolVars, threadVars>>

-----------------------------------------------------------------------------
(* Bounds *)

MaxModules == 2
MaxList == 2
MaxPasses == 4
MaxInstances == 3
MaxRequests == 2
MaxWaits == 3

-----------------------------------------------------------------------------
(* Values *)

NoExc == "none"
None == [kind |-> "None"]
\* A board object, by identity.
Obj(n) == [kind |-> "instance", obj |-> n]
EmptyMap == [x \in {} |-> None]

RegistryRef == "self._boards"
CopyRef == "copy"

\* dict with key k set to v (d[k] = v)
Put(d, k, v) == [x \in DOMAIN d \cup {k} |-> IF x = k THEN v ELSE d[x]]
\* dict without key k (del d[k])
Del(d, k) == [x \in DOMAIN d \ {k} |-> d[x]]

-----------------------------------------------------------------------------
(* What a module directory can hold.  A manifest entry of the boards list:  *)
(*   shape   "dict" or "other" (anything json allows that has no .get)      *)
(*   id, class_name   "" when the key is missing                            *)
(*   mod     outcome of importing boards.<dir>.<plugin>.<module>            *)
(*   sym     what the module holds under class_name                         *)
(*   early   the class attribute requires_early_initialization              *)

Entry(id, cn, mod, sym, early) ==
    [shape |-> "dict", id |-> id, class_name |-> cn, mod |-> mod, sym |-> sym, early |-> early]

Good(id, cn) == Entry(id, cn, "ok", "concrete", FALSE)

Junk == [shape |-> "other", id |-> "", class_name |-> "", mod |-> "ok", sym |-> "absent", early |-> FALSE]

\* A module directory: private is "its name starts with '_' or it is no directory";
\* manifest is "absent", "badjson", "notdict" (json, but no object) or "dict";
\* requirements lists the outcome of importing each python dependency.
Module(name, manifest, enabled, reqs, bl) ==
    [name |-> name, private |-> FALSE, manifest |-> manifest, enabled |-> enabled,
     requirements |-> reqs, boards |-> bl]

Private(name, bl) ==
    [name |-> name, private |-> TRUE, manifest |-> "dict", enabled |-> TRUE,
     requirements |-> <<>>, boards |-> bl]

ExamplePlugin == Module("example_plugin", "dict", TRUE, <<>>, <<Good("example", "ExampleBoard")>>)

SeasonCountdown ==
    Module("season_countdown", "dict", TRUE, <<"ok">>,
           << Entry("season_countdown", "SeasonCountdownBoard", "ok", "concrete", TRUE),
              Good("holiday", "HolidayBoard") >>)

StatsPlugin ==
    Module("stats", "dict", TRUE, <<>>,
           << Entry("stats", "StatsBoard", "ok", "concrete", TRUE) >>)

\* The module directories the model draws a disk from.
Templates ==
    { ExamplePlugin, SeasonCountdown,
      Private("__pycache__", <<Good("cached", "CachedBoard")>>),
      Module("nomanifest", "absent", TRUE, <<>>, <<Good("nomanifest", "Board")>>),
      Module("badjson", "badjson", TRUE, <<>>, <<Good("badjson", "Board")>>),
      Module("notdict", "notdict", TRUE, <<>>, <<Good("notdict", "Board")>>),
      Module("disabled", "dict", FALSE, <<>>, <<Good("disabled", "Board")>>),
      Module("needsdep", "dict", TRUE, <<"ok", "missing">>, <<Good("needsdep", "Board")>>),
      Module("depcrash", "dict", TRUE, <<"crash">>, <<Good("depcrash", "Board")>>),
      Module("noboards", "dict", TRUE, <<>>, <<>>),
      Module("mixed", "dict", TRUE, <<>>,
             << Good("mixed_a", "BoardA"), Junk, Good("mixed_b", "BoardB") >>),
      Module("faulty", "dict", TRUE, <<>>,
             << Entry("", "Board", "ok", "concrete", FALSE),
                Entry("f_noclass", "", "ok", "concrete", FALSE),
                Entry("f_nofile", "Board", "missing", "absent", FALSE),
                Entry("f_nosym", "Board", "ok", "absent", FALSE),
                Entry("f_func", "helper", "ok", "notclass", FALSE),
                Entry("f_other", "Clock", "ok", "unrelated", FALSE),
                Entry("f_base", "BoardBase", "ok", "base", FALSE),
                Good("faulty_ok", "FaultyOk") >>),
      Module("crashing", "dict", TRUE, <<>>,
             << Good("crash_a", "BoardA"), Entry("crash_b", "BoardB", "crash", "absent", FALSE) >>),
      Module("abstract", "dict", TRUE, <<>>,
             << Entry("abstract", "HalfBoard", "ok", "abstract", TRUE) >>),
      Module("duplicate", "dict", TRUE, <<>>, <<Good("example", "OtherBoard")>>) }

-----------------------------------------------------------------------------
(* Discovery: Boards._load_boards and what it calls.  The operators thread   *)
(* r = [boards, attrs, exc]: the registry, the handlers set on the object   *)
(* and the exception in flight (NoExc when none).                           *)

Raise(r, e) == [r EXCEPT !.exc = e]

\* The class object a valid entry resolves to.
BoardClass(entry, directory_name, plugin_name) ==
    [kind |-> "class", dir |-> directory_name, plugin |-> plugin_name,
     name |-> entry.class_name, abstract |-> (entry.sym = "abstract"),
     requires_early_initialization |-> entry.early]

\* "met", "unmet" (an ImportError: return False) or "raise" (any other exception).
RECURSIVE validate_requirements(_, _)
validate_requirements(requirements, i) ==
    IF i > Len(requirements) THEN "met"
    ELSE IF requirements[i] = "missing" THEN "unmet"
    ELSE IF requirements[i] = "crash" THEN "raise"
    ELSE validate_requirements(requirements, i + 1)

\* (mutation) registration that keeps the entry an id already has
load_board_from_metadata_first_wins(r, board_config, directory_name, plugin_name) ==
    IF board_config.shape # "dict" THEN Raise(r, "AttributeError")
    ELSE IF board_config.id = "" \/ board_config.class_name = "" THEN r
    ELSE IF board_config.mod = "missing" THEN r
    ELSE IF board_config.mod = "crash" THEN Raise(r, "SyntaxError")
    ELSE IF board_config.sym = "absent" THEN r
    ELSE IF board_config.sym \notin {"concrete", "abstract"} THEN r
    ELSE IF board_config.id \in DOMAIN r.boards THEN r
    ELSE LET cls == BoardClass(board_config, directory_name, plugin_name)
         IN  [r EXCEPT !.boards = Put(r.boards, board_config.id, cls),
                       !.attrs = Put(r.attrs, board_config.id, cls)]

load_board_from_metadata(r, board_config, directory_name, plugin_name) ==
    IF board_config.shape # "dict" THEN Raise(r, "AttributeError")
    ELSE IF board_config.id = "" \/ board_config.class_name = "" THEN r
    ELSE IF board_config.mod = "missing" THEN r
    ELSE IF board_config.mod = "crash" THEN Raise(r, "SyntaxError")
    ELSE IF board_config.sym = "absent" THEN r
    ELSE IF board_config.sym \notin {"concrete", "abstract"} THEN r
    ELSE LET cls == BoardClass(board_config, directory_name, plugin_name)
         IN  [r EXCEPT !.boards = Put(r.boards, board_config.id, cls),
                       !.attrs = Put(r.attrs, board_config.id, cls)]

\* The for loop of _load_single_board: an exception ends it.
RECURSIVE load_entries(_, _, _, _, _)
load_entries(r, boards_list, i, directory_name, plugin_name) ==
    IF i > Len(boards_list) \/ r.exc # NoExc THEN r
    ELSE load_entries(load_board_from_metadata(r, boards_list[i], directory_name, plugin_name),
                      boards_list, i + 1, directory_name, plugin_name)

\* (mutation) _load_single_board checking the requirements after the boards are loaded
load_single_board_late_gate(r, m, directory_name) ==
    IF m.manifest \in {"absent", "badjson"} THEN r
    ELSE IF m.manifest # "dict" THEN Raise(r, "AttributeError")
    ELSE IF ~m.enabled THEN r
    ELSE IF m.boards = <<>> THEN r
    ELSE LET loaded == load_entries(r, m.boards, 1, directory_name, m.name)
             req == validate_requirements(m.requirements, 1)
         IN  IF loaded.exc # NoExc THEN loaded
             ELSE IF req = "raise" THEN Raise(loaded, "ValueError")
             ELSE loaded

load_single_board(r, m, directory_name) ==
    IF m.manifest \in {"absent", "badjson"} THEN r
    ELSE IF m.manifest # "dict" THEN Raise(r, "AttributeError")
    ELSE IF ~m.enabled THEN r
    ELSE LET req == validate_requirements(m.requirements, 1)
         IN  IF req = "raise" THEN Raise(r, "ValueError")
             ELSE IF req = "unmet" THEN r
             ELSE IF m.boards = <<>> THEN r
             ELSE load_entries(r, m.boards, 1, directory_name, m.name)

\* (mutation) _load_boards_from_directory without its try/except
load_directory_entry_unguarded(r, m, directory_name) ==
    IF m.private THEN r ELSE load_single_board(r, m, directory_name)

\* One turn of the loop of _load_boards_from_directory: the try/except around
\* _load_single_board logs any exception and goes on.
load_directory_entry(r, m, directory_name) ==
    IF m.private THEN r
    ELSE [load_single_board(r, m, directory_name) EXCEPT !.exc = NoExc]

\* _load_boards on a whole disk (used where discovery is not the subject).
RECURSIVE load_boards(_, _, _)
load_boards(r, disk, i) ==
    IF i > Len(disk) \/ r.exc # NoExc THEN r
    ELSE load_boards(load_directory_entry(r, disk[i].module, disk[i].dir), disk, i + 1)

EmptyBoards == [boards |-> EmptyMap, attrs |-> EmptyMap, exc |-> NoExc]

-----------------------------------------------------------------------------
(* Registry API *)

\* (mutation) get_available_boards returning self._boards itself
get_available_boards_live(h) == [heap |-> h, ret |-> RegistryRef]

\* self._boards.copy(): a new dict object holding the same items.
get_available_boards(h) ==
    [heap |-> [h EXCEPT ![CopyRef] = h[RegistryRef]], ret |-> CopyRef]

is_board_loaded(h, board_name) == board_name \in DOMAIN h[RegistryRef]

-----------------------------------------------------------------------------
(* Handlers and the instance cache *)

\* The board methods the class Boards defines itself, each going through
\* _get_cached_board_instance.
LegacyBoards ==
    {"scoreticker", "seriesticker", "standings", "team_summary", "clock", "pbdisplay",
     "weather", "wxalert", "wxforecast", "screensaver", "christmas", "player_stats",
     "ovi_tracker", "stats_leaders"}

LegacyClass(name) ==
    [kind |-> "class", dir |-> "boards", plugin |-> "", name |-> name, abstract |-> FALSE,
     requires_early_initialization |-> FALSE]

\* (mutation) a lookup that knows the registered boards only
GetAttr_RegistryOnly(a, name) ==
    IF name \in DOMAIN a THEN [kind |-> "discovered", name |-> name, cls |-> a[name]]
    ELSE None

\* getattr(self, name, None): an attribute set by setattr() hides the method
\* of the same name.
GetAttr(a, name) ==
    IF name \in DOMAIN a THEN [kind |-> "discovered", name |-> name, cls |-> a[name]]
    ELSE IF name \in LegacyBoards THEN [kind |-> "legacy", name |-> name, cls |-> LegacyClass(name)]
    ELSE None

\* Whether cls(data, matrix, sleepEvent) raises: an abstract class cannot be
\* instantiated; any other constructor fails when its board is broken.
CtorRaises(name, cls, brk) == cls.abstract \/ name \in brk

\* The cache state the operators thread: c = [inst, next, exc, made, used]
\*   inst  self._board_instances      next  the next fresh object identity
\*   exc   exception in flight        made  ids constructed by this call
\*   used  the instance whose render() ran, or None
Cache(inst, next) == [inst |-> inst, next |-> next, exc |-> NoExc, made |-> {}, used |-> None]

\* (mutation) _get_cached_board_instance without its "not in" test: constructs on every call
get_cached_board_instance_always_new(c, board_name, board_class, brk) ==
    IF CtorRaises(board_name, board_class, brk)
    THEN [c |-> c, ret |-> None]
    ELSE [c |-> [c EXCEPT !.inst = Put(c.inst, board_name, Obj(c.next)),
                           !.next = c.next + 1,
                           !.made = c.made \cup {board_name}],
          ret |-> Obj(c.next)]

\* _get_cached_board_instance: the instance, or None when the constructor raised.
get_cached_board_instance(c, board_name, board_class, brk) ==
    IF board_name \notin DOMAIN c.inst
    THEN IF CtorRaises(board_name, board_class, brk)
         THEN [c |-> c, ret |-> None]
         ELSE [c |-> [c EXCEPT !.inst = Put(c.inst, board_name, Obj(c.next)),
                                !.next = c.next + 1,
                                !.made = c.made \cup {board_name}],
               ret |-> Obj(c.next)]
    ELSE [c |-> c, ret |-> c.inst[board_name]]

\* A legacy board method: board = self._get_cached_board_instance(...); board.render()
legacy_method(c, name, cls, brk) ==
    LET got == get_cached_board_instance(c, name, cls, brk)
    IN  IF got.ret = None THEN [got.c EXCEPT !.exc = "AttributeError(None.render)"]
        ELSE [got.c EXCEPT !.used = got.ret]

\* board_method, the closure create_board_method makes for a discovered board.
board_method(c, name, cls, brk) ==
    IF name \notin DOMAIN c.inst
    THEN IF CtorRaises(name, cls, brk)
         THEN [c EXCEPT !.exc = IF cls.abstract THEN "TypeError(abstract)" ELSE "Exception(ctor)"]
         ELSE [c EXCEPT !.inst = Put(c.inst, name, Obj(c.next)), !.next = c.next + 1,
                        !.made = c.made \cup {name}, !.used = Obj(c.next)]
    ELSE [c EXCEPT !.used = c.inst[name]]

\* board(data, matrix, sleepEvent) for a handler that GetAttr found.
CallHandler(c, h, brk) ==
    IF h.kind = "legacy" THEN legacy_method(c, h.name, h.cls, brk)
    ELSE board_method(c, h.name, h.cls, brk)

\* clear_board_cache(board_name); cleanup() of BoardBase does nothing.
clear_board_cache(inst, board_name) ==
    IF board_name # ""
    THEN IF board_name \in DOMAIN inst THEN Del(inst, board_name) ELSE inst
    ELSE EmptyMap

\* hasattr(board, 'cleanup') for the instance cached under name: the classes
\* discovery registers derive from BoardBase, which defines cleanup(); the
\* board classes behind the methods of Boards (StatsLeaders, Standings, ...)
\* define none.
HasCleanup(a, name) == name \in DOMAIN a

\* (mutation) clear_board_cache calling cleanup() only when it clears everything
cleanup_calls_all_only(inst, a, board_name) ==
    IF board_name # "" THEN EmptyMap
    ELSE [o \in {inst[n] : n \in {m \in DOMAIN inst : HasCleanup(a, m)}} |-> 1]

\* The cleanup() calls clear_board_cache(board_name) makes: instance -> number
\* of calls.
cleanup_calls(inst, a, board_name) ==
    IF board_name # ""
    THEN IF board_name \in DOMAIN inst /\ HasCleanup(a, board_name)
         THEN [o \in {inst[board_name]} |-> 1]
         ELSE EmptyMap
    ELSE [o \in {inst[n] : n \in {m \in DOMAIN inst : HasCleanup(a, m)}} |-> 1]

get_cached_boards(inst) == DOMAIN inst

\* (mutation) the early initializer without the requires_early_initialization test
RECURSIVE initialize_boards_all(_, _, _, _)
initialize_boards_all(c, registry, todo, brk) ==
    IF todo = {} THEN c
    ELSE LET board_name == CHOOSE n \in todo : TRUE
             step == IF CtorRaises(board_name, registry[board_name], brk) THEN c
                     ELSE [c EXCEPT !.inst = Put(c.inst, board_name, Obj(c.next)),
                                    !.next = c.next + 1,
                                    !.made = c.made \cup {board_name}]
         IN  initialize_boards_all(step, registry, todo \ {board_name}, brk)

\* (mutation) the early initializer with its try/except around the whole loop:
\* the first constructor that raises ends it
RECURSIVE initialize_boards_abort(_, _, _, _)
initialize_boards_abort(c, registry, todo, brk) ==
    IF todo = {} THEN c
    ELSE LET board_name == CHOOSE n \in todo : TRUE
             board_class == registry[board_name]
         IN  IF board_class.requires_early_initialization
             THEN IF CtorRaises(board_name, board_class, brk) THEN c
                  ELSE initialize_boards_abort(
                           [c EXCEPT !.inst = Put(c.inst, board_name, Obj(c.next)),
                                     !.next = c.next + 1,
                                     !.made = c.made \cup {board_name}],
                           registry, todo \ {board_name}, brk)
             ELSE initialize_boards_abort(c, registry, todo \ {board_name}, brk)

\* initialize_boards_with_data_requirements: the loop over self._boards.items(),
\* todo being the ids still to visit.
RECURSIVE initialize_boards(_, _, _, _)
initialize_boards(c, registry, todo, brk) ==
    IF todo = {} THEN c
    ELSE LET board_name == CHOOSE n \in todo : TRUE
             board_class == registry[board_name]
             step == IF board_class.requires_early_initialization
                     THEN IF CtorRaises(board_name, board_class, brk) THEN c
                          ELSE [c EXCEPT !.inst = Put(c.inst, board_name, Obj(c.next)),
                                         !.next = c.next + 1,
                                         !.made = c.made \cup {board_name}]
                     ELSE c
         IN  initialize_boards(step, registry, todo \ {board_name}, brk)

-----------------------------------------------------------------------------
(* The rotation loops: _off_day, _scheduled, _intermission, _post_game.     *)
(* A pass is top, pb, mqtt, wx, ss, render, advance; the flags belong to    *)
(* data and other threads may change them between any two steps.            *)

Modes == {"off_day", "scheduled", "intermission", "post_game"}

\* The board list the loop of mode m walks.
ModeList(cfg, m) ==
    CASE m = "off_day" -> cfg.boards_off_day
      [] m = "scheduled" -> cfg.boards_scheduled
      [] m = "intermission" -> cfg.boards_intermission
      [] OTHER -> cfg.boards_post_game

\* Python's list[i]: a negative i counts from the end, and i outside
\* -len .. len-1 raises IndexError.
InRange(l, i) == -Len(l) <= i /\ i < Len(l)
At(l, i) == IF i >= 0 THEN l[i + 1] ELSE l[Len(l) + i + 1]

OwnList == ModeList(config, mode)

Fail(e) ==
    /\ raised' = e
    /\ pc' = "raised"

\* (mutation) the first getattr of a pass without its None default
PassTop_NoDefault ==
    /\ pc = "top"
    /\ passes < MaxPasses
    /\ passes' = passes + 1
    /\ IF InRange(OwnList, bord_index)
       THEN IF GetAttr(attrs, At(OwnList, bord_index)) = None
            THEN /\ Fail("AttributeError(getattr)")
                 /\ UNCHANGED <<board, curr_board>>
            ELSE /\ board' = GetAttr(attrs, At(OwnList, bord_index))
                 /\ curr_board' = At(OwnList, bord_index)
                 /\ pc' = "pb"
                 /\ UNCHANGED raised
       ELSE /\ Fail("IndexError")
            /\ UNCHANGED <<board, curr_board>>
    /\ UNCHANGED <<threadVars, toolVars, discVars, cacheVars, flagVars, mode, config, prev_board, bord_index,
                   renders, errors, flags0>>

\* board = getattr(self, list[bord_index], None); data.curr_board = list[bord_index]
PassTop ==
    /\ pc = "top"
    /\ passes < MaxPasses
    /\ passes' = passes + 1
    /\ IF InRange(OwnList, bord_index)
       THEN /\ board' = GetAttr(attrs, At(OwnList, bord_index))
            /\ curr_board' = At(OwnList, bord_index)
            /\ pc' = "pb"
            /\ UNCHANGED raised
       ELSE /\ Fail("IndexError")
            /\ UNCHANGED <<board, curr_board>>
    /\ UNCHANGED <<threadVars, toolVars, discVars, cacheVars, flagVars, mode, config, prev_board, bord_index,
                   renders, errors, flags0>>

\* if data.pb_trigger: ...
PassPb ==
    /\ pc = "pb"
    /\ IF pb_trigger
       THEN /\ pb_trigger' = IF ~screensaver THEN FALSE ELSE pb_trigger
            /\ LET h == GetAttr(attrs, config.pushbutton_state_triggered1)
               IN  IF h = None
                   THEN /\ Fail("AttributeError(getattr)")
                        /\ UNCHANGED <<board, curr_board, bord_index>>
                   ELSE /\ board' = h
                        /\ curr_board' = config.pushbutton_state_triggered1
                        /\ bord_index' = bord_index - 1
                        /\ pc' = "mqtt"
                        /\ UNCHANGED raised
       ELSE /\ pc' = "mqtt"
            /\ UNCHANGED <<pb_trigger, board, curr_board, bord_index, raised>>
    /\ UNCHANGED <<threadVars, toolVars, discVars, cacheVars, mqtt_trigger, mqtt_showboard, wx_alert_interrupt,
                   screensaver, mode, config, prev_board, passes, renders, errors, flags0>>

\* if data.mqtt_trigger: ... (its log line reads boards_off_day[bord_index] in every mode)
PassMqtt ==
    /\ pc = "mqtt"
    /\ IF mqtt_trigger
       THEN IF ~InRange(config.boards_off_day, bord_index)
            THEN /\ Fail("IndexError")
                 /\ UNCHANGED <<mqtt_trigger, board, curr_board, bord_index>>
            ELSE /\ mqtt_trigger' = IF ~screensaver THEN FALSE ELSE mqtt_trigger
                 /\ LET h == GetAttr(attrs, mqtt_showboard)
                    IN  IF h = None
                        THEN /\ Fail("AttributeError(getattr)")
                             /\ UNCHANGED <<board, curr_board, bord_index>>
                        ELSE /\ board' = h
                             /\ curr_board' = mqtt_showboard
                             /\ bord_index' = bord_index - 1
                             /\ pc' = "wx"
                             /\ UNCHANGED raised
       ELSE /\ pc' = "wx"
            /\ UNCHANGED <<mqtt_trigger, board, curr_board, bord_index, raised>>
    /\ UNCHANGED <<threadVars, toolVars, discVars, cacheVars, pb_trigger, mqtt_showboard, wx_alert_interrupt,
                   screensaver, mode, config, prev_board, passes, renders, errors, flags0>>

\* if data.wx_alert_interrupt: ...
PassWx ==
    /\ pc = "wx"
    /\ IF wx_alert_interrupt
       THEN /\ wx_alert_interrupt' = FALSE
            /\ LET h == GetAttr(attrs, "wxalert")
               IN  IF h = None
                   THEN /\ Fail("AttributeError(getattr)")
                        /\ UNCHANGED <<board, curr_board, bord_index>>
                   ELSE /\ board' = h
                        /\ curr_board' = "wxalert"
                        /\ bord_index' = bord_index - 1
                        /\ pc' = "ss"
                        /\ UNCHANGED raised
       ELSE /\ pc' = "ss"
            /\ UNCHANGED <<wx_alert_interrupt, board, curr_board, bord_index, raised>>
    /\ UNCHANGED <<threadVars, toolVars, discVars, cacheVars, pb_trigger, mqtt_trigger, mqtt_showboard,
                   screensaver, mode, config, prev_board, passes, renders, errors, flags0>>

\* (mutation) _intermission with the screensaver block of the other loops
PassSs_InIntermission ==
    /\ pc = "ss"
    /\ IF screensaver
       THEN IF ~pb_trigger
            THEN LET h == GetAttr(attrs, "screensaver")
                 IN  IF h = None
                     THEN /\ Fail("AttributeError(getattr)")
                          /\ UNCHANGED <<board, curr_board, prev_board, bord_index, pb_trigger>>
                     ELSE /\ board' = h
                          /\ curr_board' = "screensaver"
                          /\ UNCHANGED pb_trigger
                          /\ IF InRange(config.boards_off_day, bord_index)
                             THEN /\ prev_board' = At(config.boards_off_day, bord_index)
                                  /\ bord_index' = bord_index - 1
                                  /\ pc' = "render"
                                  /\ UNCHANGED raised
                             ELSE /\ Fail("IndexError")
                                  /\ UNCHANGED <<prev_board, bord_index>>
            ELSE /\ pb_trigger' = FALSE
                 /\ pc' = "render"
                 /\ UNCHANGED <<board, curr_board, prev_board, bord_index, raised>>
       ELSE /\ pc' = "render"
            /\ UNCHANGED <<pb_trigger, board, curr_board, prev_board, bord_index, raised>>
    /\ UNCHANGED <<threadVars, toolVars, discVars, cacheVars, mqtt_trigger, mqtt_showboard, wx_alert_interrupt,
                   screensaver, mode, config, passes, renders, errors, flags0>>

\* if data.screensaver: ... (commented out in _intermission; prev_board is read
\* from boards_off_day in every mode)
PassSs ==
    /\ pc = "ss"
    /\ IF mode # "intermission" /\ screensaver
       THEN IF ~pb_trigger
            THEN LET h == GetAttr(attrs, "screensaver")
                 IN  IF h = None
                     THEN /\ Fail("AttributeError(getattr)")
                          /\ UNCHANGED <<board, curr_board, prev_board, bord_index, pb_trigger>>
                     ELSE /\ board' = h
                          /\ curr_board' = "screensaver"
                          /\ UNCHANGED pb_trigger
                          /\ IF InRange(config.boards_off_day, bord_index)
                             THEN /\ prev_board' = At(config.boards_off_day, bord_index)
                                  /\ bord_index' = bord_index - 1
                                  /\ pc' = "render"
                                  /\ UNCHANGED raised
                             ELSE /\ Fail("IndexError")
                                  /\ UNCHANGED <<prev_board, bord_index>>
            ELSE /\ pb_trigger' = FALSE
                 /\ pc' = "render"
                 /\ UNCHANGED <<board, curr_board, prev_board, bord_index, raised>>
       ELSE /\ pc' = "render"
            /\ UNCHANGED <<pb_trigger, board, curr_board, prev_board, bord_index, raised>>
    /\ UNCHANGED <<threadVars, toolVars, discVars, cacheVars, mqtt_trigger, mqtt_showboard, wx_alert_interrupt,
                   screensaver, mode, config, passes, renders, errors, flags0>>

\* if board: board(data, matrix, sleepEvent) else: debug.error("Board not found: ...")
\* (_off_day formats list[bord_index] into a debug line before the call)
PassRender ==
    /\ pc = "render"
    /\ IF board # None
       THEN IF mode = "off_day" /\ ~InRange(OwnList, bord_index)
            THEN /\ Fail("IndexError")
                 /\ UNCHANGED <<_board_instances, nextInst, renders, errors>>
            ELSE LET c == CallHandler(Cache(_board_instances, nextInst), board, broken)
                 IN  /\ _board_instances' = c.inst
                     /\ nextInst' = c.next
                     /\ UNCHANGED errors
                     /\ IF c.exc # NoExc
                        THEN Fail(c.exc) /\ UNCHANGED renders
                        ELSE /\ renders' = Append(renders, board.name)
                             /\ pc' = "advance"
                             /\ UNCHANGED raised
       ELSE IF ~InRange(OwnList, bord_index)
            THEN /\ Fail("IndexError")
                 /\ UNCHANGED <<_board_instances, nextInst, renders, errors>>
            ELSE /\ errors' = Append(errors, At(OwnList, bord_index))
                 /\ pc' = "advance"
                 /\ UNCHANGED <<_board_instances, nextInst, renders, raised>>
    /\ UNCHANGED <<threadVars, toolVars, discVars, broken, calls, flagVars, mode, config, curr_board, prev_board,
                   bord_index, board, passes, flags0>>

\* (mutation) the end test of a pass comparing with len(list) instead of len(list) - 1
PassAdvance_OffByOne ==
    /\ pc = "advance"
    /\ IF bord_index >= Len(OwnList)
       THEN /\ pc' = "done"
            /\ UNCHANGED bord_index
       ELSE /\ pc' = "top"
            /\ bord_index' = IF ~pb_trigger \/ ~wx_alert_interrupt \/ ~screensaver \/ ~mqtt_trigger
                             THEN bord_index + 1 ELSE bord_index
    /\ UNCHANGED <<threadVars, toolVars, discVars, cacheVars, raised, flagVars, mode, config, curr_board, prev_board,
                   board, passes, renders, errors, flags0>>

\* if bord_index >= len(list) - 1: return, else advance unless all four flags are set
PassAdvance ==
    /\ pc = "advance"
    /\ IF bord_index >= Len(OwnList) - 1
       THEN /\ pc' = "done"
            /\ UNCHANGED bord_index
       ELSE /\ pc' = "top"
            /\ bord_index' = IF ~pb_trigger \/ ~wx_alert_interrupt \/ ~screensaver \/ ~mqtt_trigger
                             THEN bord_index + 1 ELSE bord_index
    /\ UNCHANGED <<threadVars, toolVars, discVars, cacheVars, raised, flagVars, mode, config, curr_board, prev_board,
                   board, passes, renders, errors, flags0>>

\* The screensaver ends (another thread, on motion or a button, clears data.screensaver).
ScreensaverOff ==
    /\ pc \notin {"done", "raised"}
    /\ screensaver
    /\ screensaver' = FALSE
    /\ UNCHANGED <<threadVars, toolVars, discVars, cacheVars, raised, pb_trigger, mqtt_trigger, mqtt_showboard,
                   wx_alert_interrupt, loopVars>>

-----------------------------------------------------------------------------
(* The external-message block of a pass, statement by statement, with the
   thread that writes data.mqtt_trigger and data.mqtt_showboard *)

LoopRest == <<mode, config, curr_board, prev_board, board, passes, renders, errors, flags0>>

\* if data.mqtt_trigger:
MqttCheck ==
    /\ pc = "mqtt"
    /\ pc' = IF mqtt_trigger THEN "mqtt_clear" ELSE "wx"
    /\ UNCHANGED <<toolVars, threadVars, discVars, cacheVars, raised, flagVars, bord_index, LoopRest>>

\* (mutation) the block with its clearing statement removed
MqttClear_Keeps ==
    /\ pc = "mqtt_clear"
    /\ IF ~InRange(config.boards_off_day, bord_index)
       THEN Fail("IndexError") /\ UNCHANGED clears
       ELSE /\ clears' = IF ~screensaver
                         THEN Append(clears, [pass |-> passes, n |-> Len(requests),
                                              wx |-> wx_alert_interrupt])
                         ELSE clears
            /\ pc' = "mqtt_read"
            /\ UNCHANGED raised
    /\ UNCHANGED <<toolVars, requests, sleepEvent, waits, discVars, cacheVars, flagVars,
                   bord_index, LoopRest>>

\* debug.info(... boards_off_day[bord_index]); if not data.screensaver: data.mqtt_trigger = False
MqttClear ==
    /\ pc = "mqtt_clear"
    /\ IF ~InRange(config.boards_off_day, bord_index)
       THEN Fail("IndexError") /\ UNCHANGED <<mqtt_trigger, clears>>
       ELSE /\ mqtt_trigger' = IF ~screensaver THEN FALSE ELSE mqtt_trigger
            /\ clears' = IF ~screensaver
                         THEN Append(clears, [pass |-> passes, n |-> Len(requests),
                                              wx |-> wx_alert_interrupt])
                         ELSE clears
            /\ pc' = "mqtt_read"
            /\ UNCHANGED raised
    /\ UNCHANGED <<toolVars, requests, sleepEvent, waits, discVars, cacheVars, pb_trigger,
                   mqtt_showboard, wx_alert_interrupt, screensaver, bord_index, LoopRest>>

\* board = getattr(self, data.mqtt_showboard); data.curr_board = ...; bord_index -= 1
MqttRead ==
    /\ pc = "mqtt_read"
    /\ LET h == GetAttr(attrs, mqtt_showboard)
       IN  IF h = None
           THEN /\ Fail("AttributeError(getattr)")
                /\ UNCHANGED <<board, curr_board, bord_index>>
           ELSE /\ board' = h
                /\ curr_board' = mqtt_showboard
                /\ bord_index' = bord_index - 1
                /\ pc' = "wx"
                /\ UNCHANGED raised
    /\ UNCHANGED <<toolVars, threadVars, discVars, cacheVars, flagVars, mode, config, prev_board,
                   passes, renders, errors, flags0>>

\* The message thread asks for board id: it writes data.mqtt_showboard and
\* sets data.mqtt_trigger, wherever the loop stands.
MqttRequest(id) ==
    /\ pc \notin {"done", "raised", "idle"}
    /\ Len(requests) < MaxRequests
    /\ mqtt_showboard' = id
    /\ mqtt_trigger' = TRUE
    /\ requests' = Append(requests, [id |-> id, pass |-> passes,
                                     at |-> IF pc \in {"mqtt_clear", "mqtt_read"} THEN pc ELSE "other"])
    /\ UNCHANGED <<toolVars, clears, sleepEvent, waits, discVars, cacheVars, raised, pb_trigger,
                   wx_alert_interrupt, screensaver, loopVars>>

-----------------------------------------------------------------------------
(* The shared wait signal: the renders wait on sleepEvent, a thread sets it *)

\* The board classes whose constructor calls self.sleepEvent.clear().
\* BoardBase.__init__ and OviTrackerRenderer.__init__ only store the event.
ClearsInCtor == {"stats_leaders", "standings", "player_stats", "seriesticker"}

WaitRecord(id, cached, outcome) == [id |-> id, cached |-> cached, outcome |-> outcome]

\* board(data, matrix, sleepEvent) for id: the instance comes from the cache or
\* is constructed, then render() reaches self.sleepEvent.wait(seconds), which
\* returns at once when the event is set.
RenderBoard(id) ==
    /\ pc = "idle"
    /\ Len(waits) < MaxWaits
    /\ GetAttr(attrs, id) # None
    /\ LET c == CallHandler(Cache(_board_instances, nextInst), GetAttr(attrs, id), broken)
           ev == IF id \in c.made /\ id \in ClearsInCtor THEN FALSE ELSE sleepEvent
       IN  /\ c.exc = NoExc
           /\ _board_instances' = c.inst
           /\ nextInst' = c.next
           /\ sleepEvent' = ev
           /\ curr_board' = id
           /\ IF ev
              THEN /\ waits' = Append(waits, WaitRecord(id, id \notin c.made, "immediate"))
                   /\ UNCHANGED pc
              ELSE /\ waits' = Append(waits, WaitRecord(id, id \notin c.made, "waiting"))
                   /\ pc' = "waiting"
    /\ UNCHANGED <<toolVars, requests, clears, discVars, broken, calls, raised, flagVars, mode,
                   config, prev_board, bord_index, board, passes, renders, errors, flags0>>

\* The wait in progress runs for its whole duration.
WaitTimeout ==
    /\ pc = "waiting"
    /\ waits' = [waits EXCEPT ![Len(waits)].outcome = "full"]
    /\ pc' = "idle"
    /\ UNCHANGED <<toolVars, requests, clears, sleepEvent, discVars, cacheVars, raised, flagVars,
                   mode, config, curr_board, prev_board, bord_index, board, passes, renders,
                   errors, flags0>>

\* Another thread calls sleepEvent.set(): the wait in progress returns.
SignalSet ==
    /\ ~sleepEvent
    /\ sleepEvent' = TRUE
    /\ IF pc = "waiting"
       THEN /\ waits' = [waits EXCEPT ![Len(waits)].outcome = "cut"]
            /\ pc' = "idle"
       ELSE UNCHANGED <<waits, pc>>
    /\ UNCHANGED <<toolVars, requests, clears, discVars, cacheVars, raised, flagVars, mode, config,
                   curr_board, prev_board, bord_index, board, passes, renders, errors, flags0>>

-----------------------------------------------------------------------------
(* Operations on the cache, called from outside the rotation *)

Push(q, x) == IF Len(q) < 2 THEN Append(q, x) ELSE <<q[2], x>>

CallRecord(op, id, used, made, evicted, cleaned) ==
    [op |-> op, id |-> id, used |-> used, made |-> made, evicted |-> evicted,
     cleaned |-> cleaned, before |-> DOMAIN _board_instances]

\* self.<board_name>(data, matrix, sleepEvent)
CallBoard(board_name) ==
    /\ GetAttr(attrs, board_name) # None
    /\ nextInst < MaxInstances
    /\ LET c == CallHandler(Cache(_board_instances, nextInst), GetAttr(attrs, board_name), broken)
       IN  /\ _board_instances' = c.inst
           /\ nextInst' = c.next
           /\ raised' = c.exc
           /\ calls' = Push(calls, CallRecord("get", board_name, c.used, c.made, {}, EmptyMap))
    /\ UNCHANGED <<threadVars, toolVars, discVars, broken, flagVars, loopVars>>

\* self.clear_board_cache(board_name), board_name "" standing for None
ClearBoardCache(board_name) ==
    /\ _board_instances' = clear_board_cache(_board_instances, board_name)
    /\ calls' = Push(calls, CallRecord("clear", board_name, None, {},
                     {_board_instances[n] : n \in DOMAIN _board_instances \ DOMAIN _board_instances'},
                     cleanup_calls(_board_instances, attrs, board_name)))
    /\ raised' = NoExc
    /\ UNCHANGED <<threadVars, toolVars, discVars, nextInst, broken, flagVars, loopVars>>

\* self.initialize_boards_with_data_requirements(data, matrix, sleepEvent)
InitializeBoards ==
    /\ nextInst + Cardinality(DOMAIN heap[RegistryRef]) <= MaxInstances
    /\ LET c == initialize_boards(Cache(_board_instances, nextInst), heap[RegistryRef],
                                  DOMAIN heap[RegistryRef], broken)
       IN  /\ _board_instances' = c.inst
           /\ nextInst' = c.next
           /\ raised' = c.exc
           /\ calls' = Push(calls, CallRecord("init", "", None, c.made, {}, EmptyMap))
    /\ UNCHANGED <<threadVars, toolVars, discVars, broken, flagVars, loopVars>>

-----------------------------------------------------------------------------
(* Discovery, one directory entry at a time, and the registry API *)

NoResult == [op |-> "none", arg |-> "", ret |-> None, touched |-> FALSE]

\* One turn of the loops of _load_boards; an exception that leaves it ends the scan.
LoadDirectoryEntry ==
    /\ scan < Len(fs)
    /\ raised = NoExc
    /\ LET r == load_directory_entry([boards |-> heap[RegistryRef], attrs |-> attrs, exc |-> NoExc],
                                     fs[scan + 1].module, fs[scan + 1].dir)
       IN  /\ heap' = [heap EXCEPT ![RegistryRef] = r.boards]
           /\ attrs' = r.attrs
           /\ raised' = r.exc
           /\ scan' = scan + 1
    /\ UNCHANGED <<threadVars, toolVars, fs, result, cacheVars, flagVars, loopVars>>

Discovered == scan = Len(fs) /\ raised = NoExc

GetAvailableBoards ==
    /\ Discovered
    /\ LET g == get_available_boards(heap)
       IN  /\ heap' = g.heap
           /\ result' = [op |-> "get_available_boards", arg |-> "", ret |-> [ref |-> g.ret],
                         touched |-> FALSE]
    /\ UNCHANGED <<threadVars, toolVars, fs, scan, attrs, cacheVars, raised, flagVars, loopVars>>

IsBoardLoaded(board_name) ==
    /\ Discovered
    /\ result' = [op |-> "is_board_loaded", arg |-> board_name,
                  ret |-> [bool |-> is_board_loaded(heap, board_name)], touched |-> FALSE]
    /\ UNCHANGED <<threadVars, toolVars, fs, scan, heap, attrs, cacheVars, raised, flagVars, loopVars>>

\* What a caller can do to the mapping get_available_boards() gave it.
Intruder == [kind |-> "class", dir |-> "elsewhere", plugin |-> "", name |-> "Intruder",
             abstract |-> FALSE, requires_early_initialization |-> FALSE]

CallerSets(k) ==
    /\ result.op = "get_available_boards"
    /\ heap' = [heap EXCEPT ![result.ret.ref] = Put(@, k, Intruder)]
    /\ result' = [result EXCEPT !.touched = TRUE]
    /\ UNCHANGED <<threadVars, toolVars, fs, scan, attrs, cacheVars, raised, flagVars, loopVars>>

CallerDeletes(k) ==
    /\ result.op = "get_available_boards"
    /\ k \in DOMAIN heap[result.ret.ref]
    /\ heap' = [heap EXCEPT ![result.ret.ref] = Del(@, k)]
    /\ result' = [result EXCEPT !.touched = TRUE]
    /\ UNCHANGED <<threadVars, toolVars, fs, scan, attrs, cacheVars, raised, flagVars, loopVars>>

-----------------------------------------------------------------------------
(* The plugin installer (plugins.py).  A plugin.json is a record            *)
(*   kind     "missing", "badjson" (no valid JSON), "unreadable" (open()    *)
(*            fails) or "dict"                                              *)
(*   name, version   "" when the key is absent                              *)
(*   boards   "none" (no boards declared), "ok" (declared, module file      *)
(*            there) or "nofile" (declared, module file not there)          *)
(* and a plugin directory is [meta, files], files being the user files in   *)
(* it that the preserve patterns match.                                     *)

Meta(kind, name, version, boards) ==
    [kind |-> kind, name |-> name, version |-> version, boards |-> boards]

NoMeta == Meta("missing", "", "", "none")

\* if not metadata: None, and a json object without keys, are falsy
Truthy(m) == m # None /\ (m.name # "" \/ m.version # "" \/ m.boards # "none")

SystemExit == "SystemExit(1)"

\* load_json: {} when the file is not there; sys.exit(1) on a JSONDecodeError;
\* another error of open() is raised to the caller.
load_json(file) ==
    IF file.kind = "missing" THEN [ret |-> NoMeta, exc |-> NoExc]
    ELSE IF file.kind = "badjson" THEN [ret |-> None, exc |-> SystemExit]
    ELSE IF file.kind = "unreadable" THEN [ret |-> None, exc |-> "OSError"]
    ELSE [ret |-> file, exc |-> NoExc]

\* load_plugin_metadata: "except Exception" does not catch SystemExit.
load_plugin_metadata(file) ==
    IF file.kind = "missing" THEN [ret |-> None, exc |-> NoExc]
    ELSE IF load_json(file).exc \notin {NoExc, SystemExit} THEN [ret |-> None, exc |-> NoExc]
    ELSE load_json(file)

\* validate_plugin: its "except Exception" lets SystemExit through as well.
validate_plugin(dir) ==
    IF dir.meta.kind = "missing" THEN [ret |-> FALSE, exc |-> NoExc]
    ELSE LET m == load_plugin_metadata(dir.meta)
         IN  IF m.exc # NoExc THEN [ret |-> FALSE, exc |-> m.exc]
             ELSE IF ~Truthy(m.ret) THEN [ret |-> FALSE, exc |-> NoExc]
             ELSE IF m.ret.boards = "none" THEN [ret |-> FALSE, exc |-> NoExc]
             ELSE [ret |-> (m.ret.boards = "ok"), exc |-> NoExc]

\* get_plugin_id_from_repo: the name ("" for None)
get_plugin_id_from_repo(meta) ==
    LET m == load_plugin_metadata(meta)
    IN  IF m.exc # NoExc THEN [ret |-> "", exc |-> m.exc]
        ELSE IF ~Truthy(m.ret) THEN [ret |-> "", exc |-> NoExc]
        ELSE [ret |-> m.ret.name, exc |-> NoExc]

\* get_preserve_patterns and collect_preserved_files: the files of the
\* directory to carry over (no plugin.json of the model sets preserve_files,
\* so the default patterns apply whenever the metadata loads).
collect_preserved(dir) ==
    LET m == load_plugin_metadata(dir.meta)
    IN  IF m.exc # NoExc THEN [ret |-> {}, exc |-> m.exc] ELSE [ret |-> dir.files, exc |-> NoExc]

\* The files on disk and the two json files, with the exception in flight:
\* w = [dirs, pj, lock, exc, ret]
World == [dirs |-> plugin_dirs, pj |-> plugins_json, lock |-> plugins_lock, exc |-> NoExc,
          ret |-> None]

LockEntry(name, url) == [name |-> name, url |-> url]

\* install_plugin(url, ref, name_override): w.ret is the lock entry, or None.
install_plugin(w, url, name_override) ==
    IF ~repos[url].clonable THEN [w EXCEPT !.ret = None]
    ELSE LET id == IF name_override # "" THEN [ret |-> name_override, exc |-> NoExc]
                   ELSE get_plugin_id_from_repo(repos[url].meta)
         IN  IF id.exc # NoExc THEN [w EXCEPT !.exc = id.exc]
             ELSE IF id.ret = "" THEN [w EXCEPT !.ret = None]
             ELSE LET plugin_name == id.ret
                      kept == IF plugin_name \in DOMAIN w.dirs
                              THEN collect_preserved(w.dirs[plugin_name])
                              ELSE [ret |-> {}, exc |-> NoExc]
                      copied == [meta |-> repos[url].meta, files |-> repos[url].files \cup kept.ret]
                      valid == validate_plugin(copied)
                  IN  IF kept.exc # NoExc THEN [w EXCEPT !.exc = kept.exc]
                      ELSE IF valid.exc # NoExc
                      THEN [w EXCEPT !.dirs = Put(w.dirs, plugin_name, copied), !.exc = valid.exc]
                      ELSE [w EXCEPT !.dirs = Put(w.dirs, plugin_name, copied),
                                     !.ret = LockEntry(plugin_name, url)]

\* How a command's process ended: status "returned" or "exit" (sys.exit(1)),
\* at naming the function that called sys.exit; out is what the command found.
Ended(cmd, arg, exc, at, out) ==
    [cmd |-> cmd, arg |-> arg, status |-> IF exc = NoExc THEN "returned" ELSE "exit",
     at |-> IF exc = NoExc THEN "" ELSE at, out |-> out]

\* python plugins.py add URL [--name NAME]
cmd_add(url, name) ==
    LET w == install_plugin(World, url, name)
    IN  /\ plugin_dirs' = w.dirs
        /\ IF w.exc # NoExc
           THEN /\ proc' = Ended("add", url, w.exc, "load_json", None)
                /\ UNCHANGED <<plugins_json, plugins_lock>>
           ELSE IF w.ret = None
           THEN /\ proc' = Ended("add", url, SystemExit, "cmd_add", None)
                /\ UNCHANGED <<plugins_json, plugins_lock>>
           ELSE /\ plugins_json' =
                      Append(SelectSeq(plugins_json, LAMBDA e : e.name # w.ret.name /\ e.url # url),
                             LockEntry(w.ret.name, url))
                /\ plugins_lock' =
                      Append(SelectSeq(plugins_lock, LAMBDA e : e.name # w.ret.name), w.ret)
                /\ proc' = Ended("add", url, NoExc, "", w.ret.name)
    /\ UNCHANGED <<threadVars, repos, discVars, cacheVars, raised, flagVars, loopVars>>

\* python plugins.py rm NAME [--keep-config]: the json files are saved before
\* the directory is looked at.
cmd_rm(name, keep_config) ==
    /\ plugins_json' = SelectSeq(plugins_json, LAMBDA e : e.name # name)
    /\ plugins_lock' = SelectSeq(plugins_lock, LAMBDA e : e.name # name)
    /\ IF name \in DOMAIN plugin_dirs
       THEN LET kept == IF keep_config THEN collect_preserved(plugin_dirs[name])
                        ELSE [ret |-> {}, exc |-> NoExc]
            IN  /\ plugin_dirs' = IF kept.exc # NoExc THEN plugin_dirs
                                  ELSE IF kept.ret # {}
                                  THEN Put(plugin_dirs, name, [meta |-> NoMeta, files |-> kept.ret])
                                  ELSE Del(plugin_dirs, name)
                /\ proc' = Ended("rm", name, kept.exc, "load_json", None)
       ELSE /\ proc' = Ended("rm", name, NoExc, "", None)
            /\ UNCHANGED plugin_dirs
    /\ UNCHANGED <<threadVars, repos, discVars, cacheVars, raised, flagVars, loopVars>>

\* The loop of cmd_list from entry i on: the versions printed so far, or the exit.
RECURSIVE list_versions(_, _, _)
list_versions(entries, i, printed) ==
    IF i > Len(entries) THEN [ret |-> printed, exc |-> NoExc]
    ELSE IF entries[i].name \notin DOMAIN plugin_dirs
    THEN list_versions(entries, i + 1, Append(printed, "-"))
    ELSE LET m == load_plugin_metadata(plugin_dirs[entries[i].name].meta)
         IN  IF m.exc # NoExc THEN [ret |-> printed, exc |-> m.exc]
             ELSE list_versions(entries, i + 1,
                                Append(printed, IF Truthy(m.ret) /\ m.ret.version # ""
                                                THEN m.ret.version ELSE "-"))

\* python plugins.py list
cmd_list ==
    /\ LET l == list_versions(plugins_json, 1, <<>>)
       IN  proc' = Ended("list", "", l.exc, "load_json", l.ret)
    /\ UNCHANGED <<threadVars, repos, plugin_dirs, plugins_json, plugins_lock,
                   discVars, cacheVars, raised, flagVars, loopVars>>

\* validate_plugin(PLUGINS_DIR / name) on a directory that is there
ValidatePlugin(name) ==
    /\ name \in DOMAIN plugin_dirs
    /\ LET v == validate_plugin(plugin_dirs[name])
       IN  proc' = Ended("validate", name, v.exc, "load_json", [bool |-> v.ret])
    /\ UNCHANGED <<threadVars, repos, plugin_dirs, plugins_json, plugins_lock,
                   discVars, cacheVars, raised, flagVars, loopVars>>

-----------------------------------------------------------------------------
(* Initial states *)

\* The sequences of at most n distinct elements of S
Perms(S, n) ==
    {q \in UNION {[1..k -> S] : k \in 0..n} : \A i, j \in DOMAIN q : i # j => q[i] # q[j]}

\* A disk: the plugins directory is scanned first, then builtins.
Disks(T, n) ==
    {d \in UNION {[1..k -> [dir : {"plugins", "builtins"}, module : T]] : k \in 0..n} :
        /\ \A i, j \in DOMAIN d : i < j => ~(d[i].dir = "builtins" /\ d[j].dir = "plugins")
        /\ \A i, j \in DOMAIN d : i # j /\ d[i].dir = d[j].dir => d[i].module.name # d[j].module.name}

HeapOf(registry) == [x \in {RegistryRef, CopyRef} |-> IF x = RegistryRef THEN registry ELSE EmptyMap]

\* The object after Boards() on disk d
Constructed(d) ==
    LET r == load_boards(EmptyBoards, d, 1)
    IN  /\ fs = d
        /\ scan = Len(d)
        /\ heap = HeapOf(r.boards)
        /\ attrs = r.attrs
        /\ result = NoResult

ColdCache ==
    /\ _board_instances = EmptyMap
    /\ nextInst = 0
    /\ calls = <<>>
    /\ raised = NoExc

NoFlags ==
    /\ pb_trigger = FALSE
    /\ mqtt_trigger = FALSE
    /\ mqtt_showboard = ""
    /\ wx_alert_interrupt = FALSE
    /\ screensaver = FALSE

Config(off, sch, int, post, pb) ==
    [boards_off_day |-> off, boards_scheduled |-> sch, boards_intermission |-> int,
     boards_post_game |-> post, pushbutton_state_triggered1 |-> pb]

NoRotation ==
    /\ mode = "off_day"
    /\ config = Config(<<"clock">>, <<"clock">>, <<"clock">>, <<"clock">>, "clock")
    /\ curr_board = ""
    /\ prev_board = ""
    /\ bord_index = 0
    /\ board = None
    /\ pc = "idle"
    /\ passes = 0
    /\ renders = <<>>
    /\ errors = <<>>
    /\ flags0 = {}

\* What a clone of a url holds
Repo(clonable, meta, files) == [clonable |-> clonable, meta |-> meta, files |-> files]

NoProc == [cmd |-> "", arg |-> "", status |-> "returned", at |-> "", out |-> None]

NoThreads ==
    /\ requests = <<>>
    /\ clears = <<>>
    /\ sleepEvent = FALSE
    /\ waits = <<>>

NoInstaller ==
    /\ repos = [u \in {} |-> None]
    /\ plugin_dirs = EmptyMap
    /\ plugins_json = <<>>
    /\ plugins_lock = <<>>
    /\ proc = NoProc

-----------------------------------------------------------------------------
(* Spec: one rotation of one mode, entered with any flags set *)

RotationDisk == << [dir |-> "plugins", module |-> ExamplePlugin] >>

ListIds == {"clock", "example", "nosuch"}
BoardLists == Perms(ListIds, MaxList)

FlagSet ==
    (IF pb_trigger THEN {"pb"} ELSE {}) \cup (IF mqtt_trigger THEN {"mqtt"} ELSE {})
    \cup (IF wx_alert_interrupt THEN {"wx"} ELSE {}) \cup (IF screensaver THEN {"ss"} ELSE {})

Init ==
    /\ Constructed(RotationDisk)
    /\ ColdCache
    /\ broken \in {{}, {"clock"}, {"example"}}
    /\ mode \in Modes
    /\ pb_trigger \in BOOLEAN
    /\ mqtt_trigger \in BOOLEAN
    /\ wx_alert_interrupt \in BOOLEAN
    /\ screensaver \in BOOLEAN
    /\ mqtt_showboard \in (IF mqtt_trigger THEN {"weather", "nosuch"} ELSE {""})
    /\ \E own \in BoardLists, off \in {<<>>, <<"clock">>},
          pb \in (IF pb_trigger THEN {"team_summary", "nosuch"} ELSE {"team_summary"}) :
          config = CASE mode = "off_day" -> Config(own, <<"clock">>, <<"clock">>, <<"clock">>, pb)
                     [] mode = "scheduled" -> Config(off, own, <<"clock">>, <<"clock">>, pb)
                     [] mode = "intermission" -> Config(off, <<"clock">>, own, <<"clock">>, pb)
                     [] OTHER -> Config(off, <<"clock">>, <<"clock">>, own, pb)
    /\ curr_board = ""
    /\ prev_board = ""
    /\ bord_index = 0
    /\ board = None
    /\ pc = "top"
    /\ passes = 0
    /\ renders = <<>>
    /\ errors = <<>>
    /\ flags0 = FlagSet
    /\ NoInstaller
    /\ NoThreads

Next ==
    \/ PassTop
    \/ PassPb
    \/ PassMqtt
    \/ PassWx
    \/ PassSs
    \/ PassRender
    \/ PassAdvance
    \/ ScreensaverOff

Spec == Init /\ [][Next]_vars

-----------------------------------------------------------------------------
(* SpecTrigger: the off-day rotation with the message thread running *)

RequestIds == {"standings", "weather"}
TriggerLists == {own \in BoardLists : \A i \in DOMAIN own : own[i] \in {"clock", "example"}}

InitTrigger ==
    /\ Constructed(RotationDisk)
    /\ ColdCache
    /\ broken = {}
    /\ mode = "off_day"
    /\ pb_trigger = FALSE
    /\ mqtt_trigger \in BOOLEAN
    /\ wx_alert_interrupt \in BOOLEAN
    /\ screensaver \in BOOLEAN
    /\ mqtt_showboard = (IF mqtt_trigger THEN "wxforecast" ELSE "")
    /\ \E own \in TriggerLists :
          config = Config(own, <<"clock">>, <<"clock">>, <<"clock">>, "team_summary")
    /\ curr_board = ""
    /\ prev_board = ""
    /\ bord_index = 0
    /\ board = None
    /\ pc = "top"
    /\ passes = 0
    /\ renders = <<>>
    /\ errors = <<>>
    /\ flags0 = FlagSet
    /\ NoInstaller
    /\ NoThreads

NextTrigger ==
    \/ PassTop
    \/ PassPb
    \/ MqttCheck
    \/ MqttClear
    \/ MqttRead
    \/ PassWx
    \/ PassSs
    \/ PassRender
    \/ PassAdvance
    \/ ScreensaverOff
    \/ \E id \in RequestIds : MqttRequest(id)

SpecTrigger == InitTrigger /\ [][NextTrigger]_vars

-----------------------------------------------------------------------------
(* SpecWait: boards rendered one after the other while a thread may set the
   wait signal *)

WaitIds == {"example", "stats_leaders", "standings", "ovi_tracker"}

InitWait ==
    /\ Constructed(RotationDisk)
    /\ ColdCache
    /\ broken = {}
    /\ NoFlags
    /\ NoRotation
    /\ NoInstaller
    /\ NoThreads

NextWait ==
    \/ \E id \in WaitIds : RenderBoard(id)
    \/ WaitTimeout
    \/ SignalSet

SpecWait == InitWait /\ [][NextWait]_vars

-----------------------------------------------------------------------------
(* SpecCache: the instance cache and the early initializer *)

CacheTemplates == {ExamplePlugin, SeasonCountdown, StatsPlugin}
CacheIds == {"clock", "example", "season_countdown", "stats"}

InitCache ==
    /\ \E d \in {x \in Disks(CacheTemplates, MaxModules) : \A i \in DOMAIN x : x[i].dir = "plugins"} :
          Constructed(d)
    /\ ColdCache
    /\ broken \in {{}, {"clock"}, {"season_countdown"}}
    /\ NoFlags
    /\ NoRotation
    /\ NoInstaller
    /\ NoThreads

NextCache ==
    \/ \E n \in CacheIds : CallBoard(n)
    \/ \E n \in CacheIds \cup {""} : ClearBoardCache(n)
    \/ InitializeBoards

SpecCache == InitCache /\ [][NextCache]_vars

-----------------------------------------------------------------------------
(* SpecDiscovery: Boards() on any disk, then the registry API *)

ProbeIds == {"example", "holiday", "intruder"}

InitDiscovery ==
    /\ fs \in Disks(Templates, MaxModules)
    /\ scan = 0
    /\ heap = HeapOf(EmptyMap)
    /\ attrs = EmptyMap
    /\ result = NoResult
    /\ ColdCache
    /\ broken = {}
    /\ NoFlags
    /\ NoRotation
    /\ NoInstaller
    /\ NoThreads

NextDiscovery ==
    \/ LoadDirectoryEntry
    \/ GetAvailableBoards
    \/ \E n \in ProbeIds : IsBoardLoaded(n)
    \/ \E n \in ProbeIds : CallerSets(n)
    \/ \E n \in ProbeIds : CallerDeletes(n)

SpecDiscovery == InitDiscovery /\ [][NextDiscovery]_vars

-----------------------------------------------------------------------------
(* SpecShadow: Boards() on a disk where a manifest may declare an id that is
   the name of an attribute of the controller *)

\* The attributes of a Boards object the rotation and its callers use: the
\* four mode loops, the two mappings made by __init__ and the registry and
\* cache methods.
ControllerAttrs ==
    {"_off_day", "_scheduled", "_intermission", "_post_game", "_boards", "_board_instances",
     "get_available_boards", "is_board_loaded", "clear_board_cache", "get_cached_boards"}

Takeover ==
    Module("takeover", "dict", TRUE, <<>>,
           << Good("_off_day", "TakeoverBoard"), Good("clear_board_cache", "SweepBoard") >>)

ShadowTemplates == {ExamplePlugin, SeasonCountdown, Takeover}
ShadowProbes == {"example", "_off_day"}

InitShadow ==
    /\ fs \in Disks(ShadowTemplates, MaxModules)
    /\ scan = 0
    /\ heap = HeapOf(EmptyMap)
    /\ attrs = EmptyMap
    /\ result = NoResult
    /\ ColdCache
    /\ broken = {}
    /\ NoFlags
    /\ NoRotation
    /\ NoInstaller
    /\ NoThreads

NextShadow ==
    \/ LoadDirectoryEntry
    \/ GetAvailableBoards
    \/ \E n \in ShadowProbes : IsBoardLoaded(n)

SpecShadow == InitShadow /\ [][NextShadow]_vars

-----------------------------------------------------------------------------
(* SpecInstaller: commands of plugins.py, each its own process, on the same  *)
(* files                                                                    *)

Urls == {"u1", "u2"}
NameOverrides == {"", "gamma"}

RepoTemplates ==
    { Repo(TRUE, Meta("dict", "alpha", "1.0", "ok"), {"config.json"}),
      Repo(TRUE, Meta("dict", "beta", "", "nofile"), {}),
      Repo(TRUE, Meta("dict", "", "2.0", "ok"), {}),
      Repo(TRUE, Meta("dict", "", "", "none"), {}),
      Repo(TRUE, Meta("badjson", "", "", "none"), {"config.json"}),
      Repo(TRUE, Meta("unreadable", "", "", "none"), {}),
      Repo(TRUE, NoMeta, {}),
      Repo(FALSE, NoMeta, {}) }

InstallerNames == {"alpha", "beta", "gamma"}

InitInstaller ==
    /\ Constructed(RotationDisk)
    /\ ColdCache
    /\ broken = {}
    /\ NoFlags
    /\ NoRotation
    /\ repos \in [Urls -> RepoTemplates]
    /\ plugin_dirs = EmptyMap
    /\ plugins_json = <<>>
    /\ plugins_lock = <<>>
    /\ proc = NoProc
    /\ NoThreads

NextInstaller ==
    \/ \E u \in Urls, n \in NameOverrides : cmd_add(u, n)
    \/ \E n \in InstallerNames, k \in BOOLEAN : cmd_rm(n, k)
    \/ cmd_list
    \/ \E n \in InstallerNames : ValidatePlugin(n)

SpecInstaller == InitInstaller /\ [][NextInstaller]_vars

-----------------------------------------------------------------------------
(* Properties of the instance cache (SpecCache) *)

Registry == heap[RegistryRef]
Flagged == {n \in DOMAIN Registry : Registry[n].requires_early_initialization}
Last == calls[Len(calls)]

\* C1: two consecutive get-or-create calls for one id (the legacy method through
\* _get_cached_board_instance, or the generated board method) use the identical
\* instance and the second constructs nothing; the get-or-create that follows
\* clear_board_cache(id) constructs again and uses an instance that is not the
\* evicted one.
C1_IdempotentCaching ==
    Len(calls) = 2 =>
        /\ (calls[1].op = "get" /\ calls[2].op = "get" /\ calls[1].id = calls[2].id
                /\ calls[1].used # None)
             => calls[2].used = calls[1].used /\ calls[2].made = {}
        /\ (calls[1].op = "clear" /\ calls[2].op = "get" /\ calls[1].id \in {calls[2].id, ""}
                /\ calls[2].id \notin broken)
             => /\ calls[2].made = {calls[2].id}
                /\ calls[2].used # None
                /\ calls[2].used \notin calls[1].evicted
                /\ _board_instances[calls[2].id] = calls[2].used

\* A discovered board rendered, evicted and rendered again.
C1_Witness ==
    /\ Len(calls) = 2
    /\ calls[1].op = "clear" /\ calls[1].id = "example" /\ calls[1].evicted # {}
    /\ calls[2].op = "get" /\ calls[2].id = "example" /\ calls[2].used # None

\* C7: from an empty cache and with no flagged constructor failing,
\* initialize_boards_with_data_requirements constructs one instance for each
\* registered board whose class sets requires_early_initialization and none for
\* another board: get_cached_boards() is then the set of flagged ids.
C7_EarlyInitSelective ==
    (calls # <<>> /\ Last.op = "init" /\ Last.before = {} /\ Flagged \cap broken = {})
        => /\ get_cached_boards(_board_instances) = Flagged
           /\ Last.made = Flagged
           /\ \A m, n \in Flagged : m # n => _board_instances[m] # _board_instances[n]
           /\ raised = NoExc

\* Two flagged boards and an unflagged one in the registry, early init just done.
C7_Witness ==
    /\ calls # <<>> /\ Last.op = "init" /\ Last.before = {}
    /\ Flagged \cap broken = {}
    /\ Cardinality(Flagged) = 2
    /\ DOMAIN Registry \ Flagged # {}
    /\ get_cached_boards(_board_instances) = Flagged

\* C20: no call constructs an instance for an id that has a cached one (a
\* cached instance is replaced only after clear_board_cache), so the early
\* initializer leaves cached ids alone; and the render that follows an early
\* initialization uses the instance the initializer made, constructing nothing.
C20_ConstructedOncePerEviction ==
    /\ \A i \in DOMAIN calls : calls[i].made \cap calls[i].before = {}
    /\ (Len(calls) = 2 /\ calls[1].op = "init" /\ calls[2].op = "get"
            /\ calls[2].id \in calls[1].made)
          => /\ calls[2].made = {}
             /\ calls[2].used = _board_instances[calls[2].id]

\* The instances in cache c that have a cleanup hook
Hooked(c) == {c[n] : n \in {m \in DOMAIN c : m \in DOMAIN attrs}}

\* C21: a step of clear_board_cache(id) on a cached id calls cleanup() once on
\* that instance if it defines the hook and on no other, and removes that
\* entry alone; on an id not cached it calls no cleanup and leaves the cache
\* as it is; with no id it calls cleanup() once on every cached instance that
\* defines it and empties the cache.  The registry and the handlers stay.
C21_EvictionFrame ==
    [][(calls' # calls /\ calls'[Len(calls')].op = "clear") =>
          LET rec == calls'[Len(calls')]
          IN  /\ heap' = heap /\ attrs' = attrs
              /\ \A o \in DOMAIN rec.cleaned : rec.cleaned[o] = 1
              /\ IF rec.id = ""
                 THEN /\ _board_instances' = EmptyMap
                      /\ DOMAIN rec.cleaned = Hooked(_board_instances)
                 ELSE IF rec.id \in DOMAIN _board_instances
                 THEN /\ _board_instances' = Del(_board_instances, rec.id)
                      /\ DOMAIN rec.cleaned = Hooked(_board_instances) \cap {_board_instances[rec.id]}
                 ELSE /\ _board_instances' = _board_instances
                      /\ rec.cleaned = EmptyMap]_vars

\* A discovered board's instance has just been evicted by id, its cleanup()
\* called, while a legacy board's instance stays cached.
C21_Witness ==
    /\ calls # <<>> /\ Last.op = "clear" /\ Last.id = "example"
    /\ Cardinality(DOMAIN Last.cleaned) = 1
    /\ DOMAIN _board_instances = {"clock"}

\* C22: initialize_boards_with_data_requirements raises nothing; it constructs
\* and caches every flagged board whose constructor works, whichever flagged
\* board's constructor raises, and the board whose constructor raises has no
\* cached instance.
C22_EarlyInitFailureIsolated ==
    (calls # <<>> /\ Last.op = "init") =>
        /\ raised = NoExc
        /\ Last.made = Flagged \ broken
        /\ \A n \in Flagged \ broken : n \in DOMAIN _board_instances
        /\ \A n \in Flagged \cap broken : n \notin DOMAIN _board_instances

\* Two flagged boards, the constructor of one raising: the other is cached.
C22_Witness ==
    /\ calls # <<>> /\ Last.op = "init"
    /\ Flagged = {"season_countdown", "stats"} /\ broken = {"season_countdown"}
    /\ DOMAIN _board_instances = {"stats"}

-----------------------------------------------------------------------------
(* Properties of discovery and of the registry API (SpecDiscovery) *)

Malformed(m) == ~m.private /\ m.manifest \in {"absent", "badjson", "notdict"}

GoodEntry(e) ==
    e.shape = "dict" /\ e.id # "" /\ e.class_name # "" /\ e.mod = "ok" /\ e.sym = "concrete"

\* A module with nothing wrong: every entry of its boards list is loadable.
Valid(m) ==
    /\ ~m.private /\ m.manifest = "dict" /\ m.enabled
    /\ \A k \in DOMAIN m.requirements : m.requirements[k] = "ok"
    /\ m.boards # <<>>
    /\ \A k \in DOMAIN m.boards : GoodEntry(m.boards[k])

\* Whether class cls comes from the module directory fs[i].
From(cls, i) == cls.dir = fs[i].dir /\ cls.plugin = fs[i].module.name

Declares(i, id) == \E k \in DOMAIN fs[i].module.boards : fs[i].module.boards[k].id = id

\* C8: discovery raises nothing; a directory whose manifest is missing, not
\* parseable or not of the expected structure adds nothing, and every entry of a
\* valid module is registered (under its id, unless a module scanned later
\* declares that id again): one malformed and one valid module in a root leave
\* exactly the valid module's entries.
C8_DiscoveryIsolation ==
    /\ raised = NoExc
    /\ \A i \in 1..scan :
          /\ Malformed(fs[i].module) =>
                \A id \in DOMAIN Registry \cup DOMAIN attrs :
                    /\ id \in DOMAIN Registry => ~From(Registry[id], i)
                    /\ id \in DOMAIN attrs => ~From(attrs[id], i)
          /\ Valid(fs[i].module) =>
                \A k \in DOMAIN fs[i].module.boards :
                    LET e == fs[i].module.boards[k]
                    IN  /\ e.id \in DOMAIN Registry
                        /\ e.id \in DOMAIN attrs
                        /\ \/ Registry[e.id] = BoardClass(e, fs[i].dir, fs[i].module.name)
                           \/ \E j \in (i + 1)..scan : Declares(j, e.id)
    /\ (scan = 2 /\ Len(fs) = 2 /\ fs[1].dir = fs[2].dir) =>
          \A i, j \in 1..2 :
              (Malformed(fs[i].module) /\ Valid(fs[j].module)) =>
                  /\ DOMAIN Registry = {fs[j].module.boards[k].id : k \in DOMAIN fs[j].module.boards}
                  /\ DOMAIN attrs = DOMAIN Registry

\* A manifest that is no json object scanned first, the valid module after it.
C8_Witness ==
    /\ scan = 2 /\ Len(fs) = 2
    /\ fs[1].dir = "plugins" /\ fs[2].dir = "plugins"
    /\ fs[1].module.manifest = "notdict"
    /\ fs[2].module = SeasonCountdown
    /\ DOMAIN Registry = {"season_countdown", "holiday"}

Unimportable(m) == \E k \in DOMAIN m.requirements : m.requirements[k] # "ok"

\* C9: a module whose manifest declares a python dependency that cannot be
\* imported contributes no registry entry and no handler, whatever its boards
\* list holds.
C9_DependencyGate ==
    \A i \in 1..scan :
        (~fs[i].module.private /\ fs[i].module.manifest = "dict" /\ Unimportable(fs[i].module)) =>
            /\ \A id \in DOMAIN Registry : ~From(Registry[id], i)
            /\ \A id \in DOMAIN attrs : ~From(attrs[id], i)

\* A module with a missing dependency and a loadable boards list was scanned,
\* and another module's board was registered in the same pass.
C9_Witness ==
    /\ scan = Len(fs)
    /\ Registry # EmptyMap
    /\ \E i \in 1..scan :
          /\ fs[i].module.enabled /\ fs[i].module.manifest = "dict"
          /\ \E k \in DOMAIN fs[i].module.requirements : fs[i].module.requirements[k] = "missing"
          /\ \A k \in DOMAIN fs[i].module.boards : GoodEntry(fs[i].module.boards[k])
          /\ \A id \in DOMAIN Registry : ~From(Registry[id], i)

\* The registry discovery leaves on disk fs, computed in one go.
Expected == load_boards(EmptyBoards, fs, 1).boards

\* C10: what the caller does to the mapping get_available_boards() returned
\* changes neither a later is_board_loaded(id) nor a later
\* get_available_boards(), and is_board_loaded(id) holds for the keys of
\* get_available_boards() and for no other id.
C10_RegistrySnapshot ==
    Discovered =>
        /\ result.op = "is_board_loaded" => result.ret.bool = (result.arg \in DOMAIN Expected)
        /\ (result.op = "get_available_boards" /\ ~result.touched)
              => heap[result.ret.ref] = Expected
        /\ \A id \in ProbeIds \cup DOMAIN Expected :
              is_board_loaded(heap, id)
                 = (id \in DOMAIN get_available_boards(heap).heap[get_available_boards(heap).ret])

\* The caller has put a key of its own into the returned mapping, and the probe
\* for that key still answers "not loaded".
C10_Witness ==
    /\ Discovered
    /\ result.op = "is_board_loaded" /\ result.arg = "intruder" /\ result.ret.bool = FALSE
    /\ "intruder" \in DOMAIN heap[CopyRef]
    /\ "example" \in DOMAIN Registry /\ "example" \notin DOMAIN heap[CopyRef]

\* A module whose manifest gets as far as its boards list
Loadable(m) ==
    /\ ~m.private /\ m.manifest = "dict" /\ m.enabled
    /\ \A k \in DOMAIN m.requirements : m.requirements[k] = "ok"

\* C23: in a module whose manifest is read and whose requirements are met,
\* every valid entry of the boards list has its registry entry and its
\* handler, whatever is wrong with the other entries of the list, before or
\* after it.
C23_EntryFailureIsolated ==
    \A i \in 1..scan :
        Loadable(fs[i].module) =>
            \A k \in DOMAIN fs[i].module.boards :
                GoodEntry(fs[i].module.boards[k]) =>
                    /\ fs[i].module.boards[k].id \in DOMAIN Registry
                    /\ fs[i].module.boards[k].id \in DOMAIN attrs

\* C27: every class in the registry is a concrete implementer: a class derived
\* from the base, not the base itself, with render() implemented.
C27_RegistryConcrete ==
    \A id \in DOMAIN Registry :
        /\ Registry[id].kind = "class"
        /\ Registry[id].name # "BoardBase"
        /\ ~Registry[id].abstract

\* C29: whatever ids the manifests declare, discovery sets no attribute named
\* like a mode loop, a mapping or an API method of the controller: those stay
\* the objects they were.  (Property of SpecShadow.)
C29_ControllerAttrsKept == \A n \in ControllerAttrs : n \notin DOMAIN attrs

\* The class module fs[i] declares for id (its last entry of that id)
DeclaredClass(i, id) ==
    LET m == fs[i].module
        k == CHOOSE x \in DOMAIN m.boards :
                 /\ m.boards[x].id = id
                 /\ \A y \in DOMAIN m.boards : m.boards[y].id = id => y <= x
    IN  BoardClass(m.boards[k], fs[i].dir, m.name)

\* A valid module of one directory scanned before a valid module of the other,
\* both declaring id
DeclaredTwice(i, j, id) ==
    /\ i < j /\ fs[i].dir # fs[j].dir
    /\ Valid(fs[i].module) /\ Valid(fs[j].module)
    /\ Declares(i, id) /\ Declares(j, id)

-----------------------------------------------------------------------------
(* Properties of the rotation with the message thread (SpecTrigger) *)

\* Request k was made after the loop tested the flag and before it cleared it,
\* and the loop then cleared the flag in the same pass.
LateCleared(k) ==
    /\ requests[k].at = "mqtt_clear"
    /\ \E i \in DOMAIN clears : clears[i].pass = requests[k].pass /\ clears[i].n >= k

\* What takes the pass away from request k after the clear: a weather alert
\* pending at the clear, or another request written before the loop read the id.
Overtaken(k) ==
    \/ \E i \in DOMAIN clears :
          clears[i].pass = requests[k].pass /\ clears[i].n >= k /\ clears[i].wx
    \/ \E j \in DOMAIN requests :
          /\ j > k /\ requests[j].pass = requests[k].pass
          /\ requests[j].at \in {"mqtt_clear", "mqtt_read"}

\* The id of request k is asked for once and is no slot of the list and not
\* the manual board.
OnlyByRequest(k) ==
    /\ \A j \in DOMAIN requests : j # k => requests[j].id # requests[k].id
    /\ \A i \in DOMAIN OwnList : OwnList[i] # requests[k].id
    /\ config.pushbutton_state_triggered1 # requests[k].id
    /\ requests[k].id \notin {"wxalert", "screensaver"}

Shown(id) == \E i \in DOMAIN renders : renders[i] = id

\* C25: a request written between the loop's test of data.mqtt_trigger and
\* its clear, whose flag the loop cleared and whose pass was taken by a weather
\* alert or by a later request, is never rendered: the trigger is dropped.
C25_LateRequestDropped ==
    \A k \in DOMAIN requests :
        LateCleared(k) /\ Overtaken(k) /\ OnlyByRequest(k) => ~Shown(requests[k].id)

\* The rotation ended without an exception, the flag is clear, and a request
\* made between the test and the clear was never rendered.
C25_Witness ==
    /\ pc = "done" /\ raised = NoExc /\ ~mqtt_trigger
    /\ \E k \in DOMAIN requests :
          /\ LateCleared(k) /\ Overtaken(k) /\ OnlyByRequest(k)
          /\ ~Shown(requests[k].id)
          /\ Len(renders) >= 1

\* C28: the working index a pass starts with is inside its list, and no read
\* of a board list raises an index error.  (Properties of Spec.)
C28_IndexInBounds ==
    /\ raised # "IndexError"
    /\ pc = "top" /\ Len(OwnList) >= 1 => bord_index \in 0..(Len(OwnList) - 1)

\* The names a list of plugins.json or plugins.lock.json entries holds
NamesOf(entries) == {entries[i].name : i \in DOMAIN entries}

\* C30: plugins.json and plugins.lock.json name the same plugins, each name
\* at most once in each file.  (Property of SpecInstaller.)
C30_FilesNameSamePlugins ==
    /\ NamesOf(plugins_json) = NamesOf(plugins_lock)
    /\ Cardinality(NamesOf(plugins_json)) = Len(plugins_json)
    /\ Cardinality(NamesOf(plugins_lock)) = Len(plugins_lock)

-----------------------------------------------------------------------------
(* Properties of the wait signal (SpecWait) *)

\* C26: once the signal has cut a wait short, the waits of the boards
\* rendered afterwards from cached instances block again: none of them returns
\* at once because the signal is still set.
C26_SignalCutsOnlyCurrentWait ==
    \A i, j \in DOMAIN waits :
        j < i /\ waits[j].outcome = "cut" /\ waits[i].cached => waits[i].outcome # "immediate"

-----------------------------------------------------------------------------
(* Properties of the rotation (Spec) *)

Resolves(id) == GetAttr(attrs, id) # None
Unresolved(id) == ~Resolves(id)
IsBroken(id) == id \in broken
NotBroken(id) == id \notin broken
AllFour == {"pb", "mqtt", "wx", "ss"}
\* The slots of the list the loop is through with
Slots == Len(renders) + Len(errors)

\* C2: in each mode, a list of N >= 1 ids that all resolve to working boards,
\* run with no interrupt flag set, is rendered slot by slot in listed order, in
\* N passes, and the loop returns after the N-th with exactly the N renders.
C2_RotationTermination ==
    (flags0 = {} /\ Len(OwnList) >= 1
        /\ \A k \in DOMAIN OwnList : Resolves(OwnList[k]) /\ OwnList[k] \notin broken)
    => /\ raised = NoExc /\ pc # "raised"
       /\ errors = <<>>
       /\ renders = SubSeq(OwnList, 1, Len(renders))
       /\ pc = "top" => passes < Len(OwnList) /\ Len(renders) = passes
       /\ pc = "done" => renders = OwnList /\ passes = Len(OwnList)

\* A post-game rotation of two boards, one legacy and one discovered, has returned.
C2_Witness ==
    /\ pc = "done" /\ mode = "post_game" /\ flags0 = {} /\ broken = {}
    /\ OwnList = <<"example", "clock">>
    /\ renders = OwnList

\* C3: with a list of length >= 2 and all four flags set at the start of a pass,
\* the manual-trigger board is rendered first, the external-trigger board before
\* the weather-alert board and the weather-alert board before the screensaver.
C3_PriorityOrder ==
    (flags0 = AllFour /\ Len(OwnList) >= 2 /\ broken = {}
        /\ Resolves(config.pushbutton_state_triggered1) /\ Resolves(mqtt_showboard))
    => /\ renders # <<>> => renders[1] = config.pushbutton_state_triggered1
       /\ \A i \in DOMAIN renders :
             /\ renders[i] = "wxalert" => \E j \in 1..(i - 1) : renders[j] = mqtt_showboard
             /\ renders[i] = "screensaver" => \E j \in 1..(i - 1) : renders[j] = "wxalert"

\* C4: in every mode, a list with exactly one id that has no handler, run with no
\* flag set, renders the other ids in order, logs the missing one once as
\* "Board not found", raises nothing and returns after N passes.
C4_NotFoundResilience ==
    (flags0 = {} /\ Cardinality({k \in DOMAIN OwnList : Unresolved(OwnList[k])}) = 1
        /\ \A k \in DOMAIN OwnList : OwnList[k] \notin broken)
    => /\ raised = NoExc /\ pc # "raised"
       /\ Slots <= Len(OwnList)
       /\ renders = SelectSeq(SubSeq(OwnList, 1, Slots), Resolves)
       /\ errors = SelectSeq(SubSeq(OwnList, 1, Slots), Unresolved)
       /\ pc = "top" => passes < Len(OwnList) /\ Slots = passes
       /\ pc = "done" => /\ Slots = Len(OwnList)
                         /\ Len(renders) = Len(OwnList) - 1
                         /\ Len(errors) = 1

\* A scheduled rotation whose first slot names no board has returned.
C4_Witness ==
    /\ pc = "done" /\ mode = "scheduled" /\ flags0 = {} /\ broken = {}
    /\ OwnList = <<"nosuch", "example">>
    /\ renders = <<"example">> /\ errors = <<"nosuch">>

\* C5: a constructor that raises when the rotation first needs the board is
\* caught: nothing is cached for the id, no exception reaches the mode loop and
\* the slot is passed over as board-not-found.
C5_ConstructionFailureContained ==
    (flags0 = {} /\ Len(OwnList) >= 1 /\ \A k \in DOMAIN OwnList : Resolves(OwnList[k]))
    => /\ raised = NoExc /\ pc # "raised"
       /\ \A n \in broken : n \notin DOMAIN _board_instances
       /\ pc = "done" => /\ renders = SelectSeq(OwnList, NotBroken)
                         /\ errors = SelectSeq(OwnList, IsBroken)

\* C6: a manual-trigger or external-trigger board id that names no board is a
\* non-fatal board-not-found: the redirect's lookup raises nothing.
C6_MissingTriggerBoardNonFatal ==
    raised # "AttributeError(getattr)"

\* C11: in _intermission no pass is redirected to the screensaver board and
\* prev_board is never written, whatever flags are set; a pass entered with the
\* weather-alert flag set leaves the redirect blocks with the wxalert handler as
\* its board and the flag clear, also with the manual and external triggers set,
\* and wxalert is what the rotation renders first.
C11_IntermissionRedirects ==
    mode = "intermission" =>
        /\ curr_board # "screensaver"
        /\ prev_board = ""
        /\ \A i \in DOMAIN renders : renders[i] # "screensaver"
        /\ ("wx" \in flags0 /\ passes = 1 /\ pc \in {"ss", "render", "advance"})
              => /\ board = GetAttr(attrs, "wxalert")
                 /\ curr_board = "wxalert"
                 /\ ~wx_alert_interrupt
        /\ ("wx" \in flags0 /\ renders # <<>>) => renders[1] = "wxalert"

\* An intermission pass entered with all four flags set has rendered wxalert
\* while the screensaver flag is still set.
C11_Witness ==
    /\ mode = "intermission" /\ flags0 = AllFour /\ screensaver
    /\ Resolves(config.pushbutton_state_triggered1) /\ Resolves(mqtt_showboard)
    /\ pc = "advance" /\ passes = 1
    /\ renders = <<"wxalert">>

\* The ids that name a board on the Boards object: a handler put there by
\* discovery, or one of the board methods of the class.
Named(id) == id \in DOMAIN attrs \cup LegacyBoards
Unnamed(id) == ~Named(id)

\* C12 (as stated): with no flag set, the ids rendered are the ids for which
\* is_board_loaded holds and the ids logged as not found are those for which
\* it does not.
C12_ResolvedThroughRegistry ==
    flags0 = {} =>
        /\ \A i \in DOMAIN renders : is_board_loaded(heap, renders[i])
        /\ \A i \in DOMAIN errors : ~is_board_loaded(heap, errors[i])

\* C12 (amended): with no flag set, a slot's handler is called exactly when its
\* id names a registered board's handler or a board method of the class, and
\* the slot is logged as not found exactly when it names neither; every id with
\* is_board_loaded(id) has its handler called, and not conversely.
C12_ResolvedAsAttribute ==
    (flags0 = {} /\ Len(OwnList) >= 1) =>
        /\ Slots <= Len(OwnList)
        /\ renders = SelectSeq(SubSeq(OwnList, 1, Len(renders) + Len(errors)), Named)
        /\ errors = SelectSeq(SubSeq(OwnList, 1, Len(renders) + Len(errors)), Unnamed)
        /\ pc = "render" => (board # None) = Named(At(OwnList, bord_index))
        /\ pc = "raised" => /\ Named(At(OwnList, bord_index))
                            /\ At(OwnList, bord_index) \in broken
                            /\ raised \in {"Exception(ctor)", "AttributeError(None.render)"}
        /\ \A k \in DOMAIN OwnList : is_board_loaded(heap, OwnList[k]) => Named(OwnList[k])

\* An off-day rotation has rendered clock, which is_board_loaded denies, and
\* logged an id that names nothing.
C12_Witness ==
    /\ pc = "done" /\ mode = "off_day" /\ flags0 = {}
    /\ OwnList = <<"clock", "nosuch">>
    /\ renders = <<"clock">> /\ errors = <<"nosuch">>
    /\ ~is_board_loaded(heap, "clock") /\ is_board_loaded(heap, "example")

\* The ids of renders that are slots of the mode list (the lists of the model
\* name no redirect board).
IsListId(id) == id \in ListIds
ListRenders == SelectSeq(renders, IsListId)
TriggersResolve ==
    /\ "pb" \in flags0 => Resolves(config.pushbutton_state_triggered1)
    /\ "mqtt" \in flags0 => Resolves(mqtt_showboard)

\* C14: a rotation entered at index 0 with any flags set, its trigger boards
\* resolving: when the flags are clear again and no slot of the list has been
\* rendered or logged yet, the next pass starts at index 0, and the first slot
\* of the list that is rendered or logged is the one at index 0.
C14_InterruptedSlotRetried ==
    (flags0 # {} /\ TriggersResolve /\ broken = {}) =>
        /\ (pc = "top" /\ FlagSet = {} /\ ListRenders = <<>> /\ errors = <<>>) => bord_index = 0
        /\ (ListRenders # <<>> /\ errors = <<>>) => ListRenders[1] = OwnList[1]
        /\ (ListRenders = <<>> /\ errors # <<>>) => errors[1] = OwnList[1]

\* C15: at the end of a pass that does not return, the index goes up by one
\* exactly when none of the four flags is set at that point, and stays as it
\* is when any of them is set.
C15_AdvanceOnlyWhenNoFlag ==
    [][(pc = "advance" /\ pc' = "top") =>
          /\ (FlagSet = {}) => bord_index' = bord_index + 1
          /\ (FlagSet # {}) => bord_index' = bord_index]_vars

\* C16: in every mode, a pass entered with the weather-alert flag set renders
\* the wxalert board, whatever the other three flags are, and the flag is not
\* found clear after a render unless wxalert has been rendered.
C16_WeatherAlertRendered ==
    "wx" \in flags0 =>
        /\ renders # <<>> => renders[1] = "wxalert"
        /\ (renders # <<>> /\ ~wx_alert_interrupt) => \E i \in DOMAIN renders : renders[i] = "wxalert"

\* C17: in _off_day, _scheduled and _post_game, when the screensaver redirect
\* fires in the first pass, prev_board is the id at index 0 of the loop's own
\* list, the slot the pass began with, whatever other flags fired before it in
\* the pass; and prev_board never holds an id that is not in the own list.
C17_PrevBoardIsDisplacedSlot ==
    mode # "intermission" =>
        /\ (passes = 1 /\ pc \in {"render", "advance"} /\ curr_board = "screensaver")
              => prev_board = OwnList[1]
        /\ prev_board # "" => \E k \in DOMAIN OwnList : prev_board = OwnList[k]

IsManualBoard(id) == id = config.pushbutton_state_triggered1

\* C18: _intermission on a list of at least one id, entered with the manual trigger set, alone or with a
\* screensaver flag that stays set, the trigger's board resolving and no
\* constructor failing: the manual board is rendered once and no more, the
\* trigger is clear once it has been rendered, nothing is raised, and when the
\* loop returns every slot of the list has been rendered or logged in order.
C18_IntermissionManualOnce ==
    (mode = "intermission" /\ Len(OwnList) >= 1 /\ broken = {}
        /\ Resolves(config.pushbutton_state_triggered1)
        /\ (flags0 = {"pb"} \/ (flags0 = {"pb", "ss"} /\ screensaver)))
    => /\ Len(SelectSeq(renders, IsManualBoard)) <= 1
       /\ renders # <<>> => ~pb_trigger
       /\ raised = NoExc
       /\ pc = "done" => /\ ListRenders = SelectSeq(OwnList, Resolves)
                         /\ errors = SelectSeq(OwnList, Unresolved)

\* C19: in _scheduled, _intermission and _post_game nothing observable comes
\* from the off-day list: an IndexError is raised only with the index outside
\* the loop's own list, and prev_board holds only an id of the own list, so
\* that two rotations differing in boards_off_day alone end alike.
C19_OffDayListIrrelevant ==
    mode # "off_day" =>
        /\ raised = "IndexError" => ~InRange(OwnList, bord_index)
        /\ prev_board # "" => \E k \in DOMAIN OwnList : prev_board = OwnList[k]

-----------------------------------------------------------------------------
(* Properties of the plugin installer (SpecInstaller) *)

\* C13: load_plugin_metadata returns None for a plugin.json that is missing or
\* is not valid JSON, in a cloned repository and in an installed directory, and
\* no command's process is ended by the reading of a plugin.json.
C13_InvalidMetadataNonFatal ==
    /\ proc.at # "load_json"
    /\ \A n \in DOMAIN plugin_dirs :
          plugin_dirs[n].meta.kind \in {"missing", "badjson"}
             => load_plugin_metadata(plugin_dirs[n].meta) = [ret |-> None, exc |-> NoExc]

====
